---- MODULE Spec2Model ----
(***************************************************************************)
(* Model of installCollector.py: main() mounts a remote share into a fresh *)
(* local directory (RemoteFolder), resolves one archive in the mounted     *)
(* tree (getArchivePath), and runs the rule-driven extraction engine       *)
(* (FilesExtractor) before the share is released.                          *)
(*                                                                         *)
(* Strings are sequences of one-character strings, so that the regular     *)
(* expressions, pathlib's splitting of a path into components and the      *)
(* ordering of directory names are computed rather than assumed.           *)
(***************************************************************************)
EXTENDS Integers, Sequences, FiniteSets, TLC

VARIABLES
    pc,             \* position in main(): start, enter, locate, open, extract, exit, stop, done
    config,         \* the configuration file on disk
    settings,       \* the Settings object built from it
    dirExists,      \* RemoteFolder.localFolder exists as a directory
    mounted,        \* a filesystem is attached at localFolder
    errCode,        \* RemoteFolder.errCode
    trace,          \* lifecycle calls made so far, in order
    exc,            \* exception propagating out of main(), "none" if none
    ret,            \* what main() returned: "none", "err" (the SettingsInitError) or "None"
    remote,         \* directory tree of the mounted share
    archivePath,    \* result of getArchivePath
    archiveOpened,  \* tarfile.open was called on archivePath
    members,        \* archive.getmembers()
    disk,           \* the local filesystem
    i,              \* position of the loop over settings.files
    j,              \* position of the loop over archiveMembers
    filesProcessed, \* FilesExtractor.filesProcessed
    last,           \* what the latest pass through the loop body did
    summary,        \* the count of the "Files extracted" line, -1 before it is printed
    rerun,          \* the program was run before, on this filesystem and archive
    before,         \* the local filesystem as it was when this run started
    tarball         \* the archive file: whether it was read yet, and its member listing

vars == <<pc, config, settings, dirExists, mounted, errCode, trace, exc, ret,
          remote, archivePath, archiveOpened, members, disk, i, j, filesProcessed,
          last, summary, rerun, before, tarball>>

-----------------------------------------------------------------------------
(* Strings *)

Range(s) == {s[k] : k \in 1..Len(s)}

Front(s) == SubSeq(s, 1, Len(s) - 1)

Last(s) == s[Len(s)]

\* "a" + "/" + "b" for a sequence of components
RECURSIVE JoinPath(_)
JoinPath(parts) ==
    IF parts = <<>> THEN <<>>
    ELSE IF Len(parts) = 1 THEN parts[1]
    ELSE parts[1] \o <<"/">> \o JoinPath(Tail(parts))

\* code points of the characters that occur in the names of the model
Ord(c) ==
    CASE c = "-" -> 45 [] c = "." -> 46 [] c = "/" -> 47
      [] c = "0" -> 48 [] c = "1" -> 49 [] c = "2" -> 50 [] c = "3" -> 51
      [] c = "6" -> 54 [] c = "9" -> 57
      [] c = "L" -> 76 [] c = "_" -> 95
      [] c = "a" -> 97 [] c = "b" -> 98 [] c = "d" -> 100 [] c = "f" -> 102
      [] c = "g" -> 103 [] c = "i" -> 105 [] c = "k" -> 107 [] c = "l" -> 108
      [] c = "m" -> 109 [] c = "n" -> 110 [] c = "o" -> 111 [] c = "p" -> 112
      [] c = "r" -> 114 [] c = "s" -> 115 [] c = "t" -> 116 [] c = "u" -> 117
      [] c = "v" -> 118 [] c = "w" -> 119 [] c = "x" -> 120 [] c = "z" -> 122

\* Python's str.__lt__: by code point, a proper prefix is smaller
RECURSIVE StrLess(_, _)
StrLess(a, b) ==
    IF b = <<>> THEN FALSE
    ELSE IF a = <<>> THEN TRUE
    ELSE IF a[1] = b[1] THEN StrLess(Tail(a), Tail(b))
    ELSE Ord(a[1]) < Ord(b[1])

-----------------------------------------------------------------------------
(* Regular expressions: a pattern is a sequence of alternatives (a|b), an   *)
(* alternative a sequence of tokens, a token a character set with a         *)
(* repetition ("one", "plus", "star"), the anchor "end" ($), or "error"     *)
(* for text re.compile rejects.                                             *)

Chars == {"-", ".", "/", "0", "1", "2", "3", "6", "9", "L", "_", "a", "b", "d",
          "f", "g", "i", "k", "l", "m", "n", "o", "p", "r", "s", "t", "u", "v",
          "w", "x", "z"}

\* a class \w that would take "/" for a word character
WordCharsWithSlash == Chars \ {"-", "."}

WordChars == Chars \ {"-", ".", "/"}

Lit(c) == [set |-> {c}, rep |-> "one"]

Tok(S, r) == [set |-> S, rep |-> r]

EndAnchor == [set |-> {}, rep |-> "end"]

BadToken == [set |-> {}, rep |-> "error"]

RECURSIVE LitSeq(_)
LitSeq(s) == IF s = <<>> THEN <<>> ELSE <<Lit(s[1])>> \o LitSeq(Tail(s))

\* backtracking match of tokens k.. of one alternative against s from position p
RECURSIVE MatchAt(_, _, _, _)
MatchAt(alt, k, s, p) ==
    IF k > Len(alt) THEN TRUE
    ELSE LET t == alt[k]
             here == p <= Len(s) /\ s[p] \in t.set
         IN CASE t.rep = "end"  -> p = Len(s) + 1 /\ MatchAt(alt, k + 1, s, p)
              [] t.rep = "one"  -> here /\ MatchAt(alt, k + 1, s, p + 1)
              [] t.rep = "star" -> MatchAt(alt, k + 1, s, p)
                                   \/ (here /\ MatchAt(alt, k, s, p + 1))
              [] t.rep = "plus" -> here /\ (MatchAt(alt, k + 1, s, p + 1)
                                            \/ MatchAt(alt, k, s, p + 1))
              [] OTHER -> FALSE

\* re.Pattern.match: some alternative matches a prefix of s
ReMatch(regex, s) == \E a \in 1..Len(regex) : MatchAt(regex[a], 1, s, 1)

\* re.compile raises re.error
ReError(pattern) ==
    \E a \in 1..Len(pattern) : \E k \in 1..Len(pattern[a]) :
        pattern[a][k].rep = "error"

\* Settings.llvmPattern = r".*/[^/]*llvm[^/]*$"
llvmPattern ==
    << <<Tok(Chars, "star"), Lit("/"), Tok(Chars \ {"/"}, "star")>>
       \o LitSeq(<<"l", "l", "v", "m">>)
       \o <<Tok(Chars \ {"/"}, "star"), EndAnchor>> >>

\* entry.regex = re.compile(f"\\./{entry.pattern}"): the text "\./" is put in
\* front of the pattern's text, so it lands in the first alternative only
CompileEntry(pattern) ==
    [a \in 1..Len(pattern) |->
        IF a = 1 THEN <<Lit("."), Lit("/")>> \o pattern[a] ELSE pattern[a]]


-----------------------------------------------------------------------------
(* The mounted share.  A tree maps the path of each directory (a sequence   *)
(* of names, relative to the mount point) to its listing in the order       *)
(* iterdir yields it; a listed name that is no directory is a file.         *)

localFolder == <<"/", "w", "/", "r">>

V10 == <<"1", ".", "0">>

V20 == <<"2", ".", "0">>

V30 == <<"3", ".", "0">>

Linux == <<"L", "i", "n", "u", "x">>

D0101 == <<"2", "0", "2", "2", "-", "0", "1", "-", "0", "1">>

D0601 == <<"2", "0", "2", "2", "-", "0", "6", "-", "0", "1">>

D9 == <<"9">>

D10 == <<"1", "0">>

Dllvm == <<"l", "l", "v", "m">>

PkgLlvm == <<"p", "k", "g", "_", "l", "l", "v", "m", ".", "t", "g", "z">>

PkgStd == <<"p", "k", "g", "_", "s", "t", "d", ".", "t", "g", "z">>

OldStd == <<"o", "l", "d", "_", "s", "t", "d", ".", "t", "g", "z">>

Stray == <<"z">>

IsDir(tree, p) == p \in DOMAIN tree

\* Path.exists()
Exists(tree, p) ==
    \/ p = <<>>
    \/ Front(p) \in DOMAIN tree /\ Last(p) \in Range(tree[Front(p)])

\* a variant that trusts the listing to be sorted and takes its last name
MaxNameLastListed(listing) == listing[Len(listing)]

\* max() over the Paths of one directory: the first greatest name
RECURSIVE MaxName(_)
MaxName(listing) ==
    IF Len(listing) = 1 THEN listing[1]
    ELSE LET m == MaxName(Tail(listing))
         IN IF StrLess(listing[1], m) THEN m ELSE listing[1]

\* str(archiveFile)
PathStr(p) == JoinPath(<<localFolder>> \o p)

Found(p) == [kind |-> "path", path |-> p, msg |-> "", exc |-> "none"]

NotFound(m) == [kind |-> "None", path |-> <<>>, msg |-> m, exc |-> "none"]

Raised(e) == [kind |-> "raise", path |-> <<>>, msg |-> "", exc |-> e]

\* the loop over archivePath.iterdir(), from position k of the listing
RECURSIVE FirstVariant(_, _, _, _)
FirstVariant(llvm, dir, listing, k) ==
    IF k > Len(listing)
    THEN NotFound("Could not find archive, try changeing llvm setting.")
    ELSE LET archiveFile == dir \o <<listing[k]>>
             isLlvm == ReMatch(llvmPattern, PathStr(archiveFile))
         IN IF llvm /\ isLlvm THEN Found(archiveFile)
            ELSE IF ~llvm /\ ~isLlvm THEN Found(archiveFile)
            ELSE FirstVariant(llvm, dir, listing, k + 1)

getArchivePath(s, tree) ==
    LET versionPath == <<s.collectorVersion>>
        osPath == <<s.collectorVersion, s.osVersion>>
    IN IF ~Exists(tree, versionPath)
       THEN NotFound("Could not find collector version folder")
       ELSE IF ~Exists(tree, osPath)
       THEN NotFound("Could not find os version folder")
       ELSE IF ~IsDir(tree, osPath) THEN Raised("NotADirectoryError")
       ELSE IF tree[osPath] = <<>> THEN Raised("ValueError")
       ELSE LET buildPath == osPath \o <<MaxName(tree[osPath])>>
            IN IF ~IsDir(tree, buildPath) THEN Raised("NotADirectoryError")
               ELSE FirstVariant(s.llvm, buildPath, tree[buildPath], 1)

\* shares laid out as version/os/build/file
BaseShare(osListing) ==
    (<<>> :> <<V10, V20>>) @@ (<<V10>> :> <<>>) @@ (<<V20>> :> <<Linux>>)
    @@ (<<V20, Linux>> :> osListing)

Build(name, listing) == (<<V20, Linux, name>> :> listing)

\* the tree of the specification's example
ExampleShare ==
    BaseShare(<<D0101, D0601>>) @@ Build(D0101, <<>>)
    @@ Build(D0601, <<PkgLlvm, PkgStd>>)

Trees ==
    { ExampleShare,
      \* the same tree listed in another order
      BaseShare(<<D0601, D0101>>) @@ Build(D0101, <<>>)
          @@ Build(D0601, <<PkgStd, PkgLlvm>>),
      \* version directory without the os directory
      (<<>> :> <<V20>>) @@ (<<V20>> :> <<>>),
      \* the os entry is a file
      (<<>> :> <<V20>>) @@ (<<V20>> :> <<Linux>>),
      \* empty os directory
      BaseShare(<<>>),
      \* only the older build holds an llvm archive
      BaseShare(<<D0101, D0601>>) @@ Build(D0101, <<PkgLlvm, PkgStd>>)
          @@ Build(D0601, <<PkgStd>>),
      \* names that order differently as numbers and as text
      BaseShare(<<D9, D10>>) @@ Build(D9, <<PkgStd>>) @@ Build(D10, <<PkgLlvm>>),
      \* a build directory whose own name holds "llvm"
      BaseShare(<<D0601, Dllvm>>) @@ Build(D0601, <<PkgLlvm>>)
          @@ Build(Dllvm, <<PkgStd>>),
      \* a file next to the build directories, greatest by name
      BaseShare(<<D0601, Stray>>) @@ Build(D0601, <<PkgStd>>),
      \* a file next to the build directories, not the greatest
      BaseShare(<<D10, D0601>>) @@ Build(D0601, <<PkgStd>>),
      \* two archives of the same variant, in both listing orders
      BaseShare(<<D0601>>) @@ Build(D0601, <<PkgStd, OldStd, PkgLlvm>>),
      BaseShare(<<D0601>>) @@ Build(D0601, <<OldStd, PkgLlvm, PkgStd>>),
      \* empty build directory
      BaseShare(<<D0101, D0601>>) @@ Build(D0101, <<PkgStd>>) @@ Build(D0601, <<>>) }

NoTree == (<<>> :> <<>>)

-----------------------------------------------------------------------------
(* Paths and the local filesystem.  A Path is [abs, parts]; a location is   *)
(* the sequence of names from the root.  fs maps each location that exists  *)
(* to [kind, data, owner]: kind "dir", "file" (data: the archive member it  *)
(* was written from) or "link" (data: the target text, as readlink gives).  *)

\* the components of a path text: split at "/", "" and "." dropped
RECURSIVE SplitFrom(_, _)
SplitFrom(s, cur) ==
    LET done == IF cur \in {<<>>, <<".">>} THEN <<>> ELSE <<cur>>
    IN IF s = <<>> THEN done
       ELSE IF s[1] = "/" THEN done \o SplitFrom(Tail(s), <<>>)
       ELSE SplitFrom(Tail(s), Append(cur, s[1]))

Components(s) == SplitFrom(s, <<>>)

\* Path(text)
ParsePath(s) == [abs |-> s # <<>> /\ s[1] = "/", parts |-> Components(s)]

\* str(path)
StrOfPath(p) == (IF p.abs THEN <<"/">> ELSE <<>>) \o JoinPath(p.parts)

\* Path(a, b), os.path.join(a, b)
JoinPaths(a, b) ==
    IF b.abs THEN b ELSE [abs |-> a.abs, parts |-> a.parts \o b.parts]

\* Path.name
BaseName(p) == IF p.parts = <<>> THEN <<>> ELSE Last(p.parts)

\* Path.parent
Parent(p) == [p EXCEPT !.parts = IF @ = <<>> THEN <<>> ELSE Front(@)]

\* os.getcwd() of the run, as a location
cwd == << <<"w">> >>

\* where the kernel finds a path that is used from directory base
Loc(p, base) == IF p.abs THEN p.parts ELSE base \o p.parts

IsPrefix(a, b) == Len(a) <= Len(b) /\ SubSeq(b, 1, Len(a)) = a

IsDirLoc(fs, l) == l = <<>> \/ (l \in DOMAIN fs /\ fs[l].kind = "dir")

DirEntry == [kind |-> "dir", data |-> <<>>, owner |-> "root"]

\* a symbolic link's text is resolved from the directory that holds the link
LinkTarget(fs, l) == Loc(ParsePath(fs[l].data), Front(l))

\* follow the links at l: where the chain ends, and on what
RECURSIVE Deref(_, _, _)
Deref(fs, l, fuel) ==
    IF l = <<>> THEN [state |-> "entry", loc |-> l]
    ELSE IF l \notin DOMAIN fs THEN [state |-> "dangling", loc |-> l]
    ELSE IF fs[l].kind # "link" THEN [state |-> "entry", loc |-> l]
    ELSE IF fuel = 0 THEN [state |-> "loop", loc |-> l]
    ELSE Deref(fs, LinkTarget(fs, l), fuel - 1)

Follow(fs, l) == Deref(fs, l, Cardinality(DOMAIN fs))

\* Path.exists(): follows symbolic links, False for a dangling link
FsExists(fs, l) == Follow(fs, l).state = "entry"

\* os.path.lexists
FsLExists(fs, l) == l = <<>> \/ l \in DOMAIN fs

\* the filesystem and log of one pass through the loop body; exc is the
\* exception raised in it, after which nothing more is done
Fail(st, e) == [st EXCEPT !.exc = e]

Did(st, fs, op) == [st EXCEPT !.fs = fs, !.ops = Append(@, op)]

\* fs with l set to entry e
Put(fs, l, e) == [x \in DOMAIN fs \cup {l} |-> IF x = l THEN e ELSE fs[x]]

\* fs without l
Drop(fs, l) == [x \in DOMAIN fs \ {l} |-> fs[x]]

\* os.makedirs of the directories above l
WithDirs(fs, l) ==
    [x \in DOMAIN fs \cup {SubSeq(l, 1, k) : k \in 1..(Len(l) - 1)} |->
        IF x \in DOMAIN fs THEN fs[x] ELSE DirEntry]

\* TarFile.extract(member, path): the member is written at path/member.name,
\* through a symbolic link if one is there (open(target, "wb")); run as root,
\* tarfile then gives the file the owner recorded in the archive (os.chown)
tarExtract(st, member, path) ==
    LET target == Loc(JoinPaths(ParsePath(path), ParsePath(member.name)), cwd)
        blocked == \E k \in 1..(Len(target) - 1) :
                      SubSeq(target, 1, k) \in DOMAIN st.fs
                      /\ st.fs[SubSeq(target, 1, k)].kind # "dir"
        fs1 == WithDirs(st.fs, target)
        end == Follow(fs1, target)
        written == [kind |-> "file", data |-> member.name, owner |-> "archive"]
        op == [op |-> "extract", at |-> target, arg |-> member.name]
    IN IF st.exc # "none" THEN st
       ELSE IF target = <<>> THEN Fail(st, "IsADirectoryError")
       ELSE IF blocked THEN Fail(st, "NotADirectoryError")
       ELSE IF end.state = "loop" THEN Fail(st, "OSError")
       ELSE IF end.state = "entry" /\ IsDirLoc(fs1, end.loc)
       THEN Fail(st, "IsADirectoryError")
       ELSE IF end.state = "dangling" /\ ~IsDirLoc(fs1, Front(end.loc))
       THEN Fail(st, "FileNotFoundError")
       ELSE Did(st, Put(fs1, end.loc, written), op)

\* os.getlogin()
loginUser == "alice"

\* shutil.chown(path, user): follows symbolic links
chown(st, l, user) ==
    Did(st, [st.fs EXCEPT ![Follow(st.fs, l).loc].owner = user],
        [op |-> "chown", at |-> l, arg |-> user])

\* changeFileOwner with the named user taking precedence
changeFileOwnerNamedFirst(st, s, filePath) ==
    IF st.exc # "none" THEN st
    ELSE IF FsExists(st.fs, Loc(filePath, cwd))
            /\ (s.changeOwnerToCurrentUser \/ s.changeOwnerTo # "")
    THEN IF s.changeOwnerTo # ""
         THEN chown(st, Loc(filePath, cwd), s.changeOwnerTo)
         ELSE chown(st, Loc(filePath, cwd), loginUser)
    ELSE st

\* FilesExtractor.changeFileOwner
changeFileOwner(st, s, filePath) ==
    IF st.exc # "none" THEN st
    ELSE IF FsExists(st.fs, Loc(filePath, cwd))
            /\ (s.changeOwnerToCurrentUser \/ s.changeOwnerTo # "")
    THEN IF s.changeOwnerToCurrentUser
         THEN chown(st, Loc(filePath, cwd), loginUser)
         ELSE chown(st, Loc(filePath, cwd), s.changeOwnerTo)
    ELSE st

\* os.rename(src, dst): moves src itself (a link is not followed) and what is
\* below it, replacing a file, a link or an empty directory at dst
osRename(st, src, dst) ==
    LET fs == st.fs
        under(l) == IsPrefix(src, l)
        moved(l) == dst \o SubSeq(l, Len(src) + 1, Len(l))
        kept == {l \in DOMAIN fs : ~under(l) /\ l # dst}
        newFs == [x \in kept \cup {moved(l) : l \in {y \in DOMAIN fs : under(y)}} |->
                    IF IsPrefix(dst, x)
                    THEN fs[src \o SubSeq(x, Len(dst) + 1, Len(x))]
                    ELSE fs[x]]
        op == [op |-> "rename", at |-> src, arg |-> dst]
    IN IF src = dst THEN Did(st, fs, op)
       ELSE IF ~IsDirLoc(fs, Front(dst)) THEN Fail(st, "FileNotFoundError")
       ELSE IF IsPrefix(src, dst) THEN Fail(st, "OSError")
       ELSE IF dst \in DOMAIN fs /\ fs[dst].kind = "dir" /\ fs[src].kind # "dir"
       THEN Fail(st, "IsADirectoryError")
       ELSE IF dst \in DOMAIN fs /\ fs[dst].kind # "dir" /\ fs[src].kind = "dir"
       THEN Fail(st, "NotADirectoryError")
       ELSE IF dst \in DOMAIN fs /\ fs[dst].kind = "dir"
               /\ \E l \in DOMAIN fs : l # dst /\ IsPrefix(dst, l)
       THEN Fail(st, "OSError")
       ELSE Did(st, newFs, op)

\* the path FilesExtractor.renameFile returns
renamedPath(fs, filePath, fileEntry) ==
    IF FsExists(fs, Loc(filePath, cwd)) /\ fileEntry.renameTo # <<>>
    THEN JoinPaths(Parent(filePath), ParsePath(fileEntry.renameTo))
    ELSE filePath

\* FilesExtractor.renameFile, its effect on the filesystem
renameFile(st, filePath, fileEntry) ==
    IF st.exc # "none" THEN st
    ELSE IF FsExists(st.fs, Loc(filePath, cwd)) /\ fileEntry.renameTo # <<>>
    THEN osRename(st, Loc(filePath, cwd),
                  Loc(renamedPath(st.fs, filePath, fileEntry), cwd))
    ELSE st

\* os.remove(path): unlinks the entry itself, refuses a directory
osRemove(st, l) ==
    IF st.exc # "none" THEN st
    ELSE IF st.fs[l].kind = "dir" THEN Fail(st, "IsADirectoryError")
    ELSE Did(st, Drop(st.fs, l), [op |-> "remove", at |-> l, arg |-> <<>>])

\* Path.symlink_to(target): os.symlink(str(target), path)
symlink_to(st, l, target) ==
    IF st.exc # "none" THEN st
    ELSE IF FsLExists(st.fs, l) THEN Fail(st, "FileExistsError")
    ELSE IF ~IsDirLoc(st.fs, Front(l)) THEN Fail(st, "FileNotFoundError")
    ELSE Did(st, Put(st.fs, l, [kind |-> "link", data |-> StrOfPath(target),
                               owner |-> "root"]),
             [op |-> "symlink", at |-> l, arg |-> StrOfPath(target)])

\* genSymlink without its test of filePath.exists()
genSymlinkUnguarded(st, s, filePath, fileEntry) ==
    LET symLinkPath == ParsePath(fileEntry.symLinkPath)
        l == Loc(symLinkPath, cwd)
        removed == IF FsExists(st.fs, l) THEN osRemove(st, l) ELSE st
    IN IF st.exc # "none" THEN st
       ELSE IF fileEntry.symLinkPath # <<>>
       THEN changeFileOwner(symlink_to(removed, l, filePath), s, symLinkPath)
       ELSE st

\* FilesExtractor.genSymlink
genSymlink(st, s, filePath, fileEntry) ==
    LET symLinkPath == ParsePath(fileEntry.symLinkPath)
        l == Loc(symLinkPath, cwd)
        removed == IF FsExists(st.fs, l) THEN osRemove(st, l) ELSE st
    IN IF st.exc # "none" THEN st
       ELSE IF FsExists(st.fs, Loc(filePath, cwd)) /\ fileEntry.symLinkPath # <<>>
       THEN changeFileOwner(symlink_to(removed, l, filePath), s, symLinkPath)
       ELSE st

-----------------------------------------------------------------------------
(* Inputs: archive listings, rules, configuration files, local filesystems *)

Str_lib == <<"l", "i", "b">>

Str_foo_so == <<"f", "o", "o", ".", "s", "o">>

Str_bar_txt == <<"b", "a", "r", ".", "t", "x", "t">>

Str_out == <<"o", "u", "t">>

Str_out_lib == <<"o", "u", "t", "/", "l", "i", "b", "/">>

Str_opt == <<"/", "o", "p", "t">>

Str_link == <<"l", "i", "n", "k">>

Str_out_l == <<"o", "u", "t", "/", "l">>

Str_x_so == <<"x", ".", "s", "o">>

Str_gone == <<"o", "l", "d">>

File(name) == [name |-> name, isdir |-> FALSE]

Dir(name) == [name |-> name, isdir |-> TRUE]

M_lib == Dir(<<".", "/">> \o Str_lib)

M_lib_foo == File(<<".", "/">> \o Str_lib \o <<"/">> \o Str_foo_so)

M_lib_bar == File(<<".", "/">> \o Str_lib \o <<"/">> \o Str_bar_txt)

M_foo == File(<<".", "/">> \o Str_foo_so)

M_bar == File(<<".", "/">> \o Str_bar_txt)

\* a member stored without the leading "./"
M_bare_lib_foo == File(Str_lib \o <<"/">> \o Str_foo_so)

Listings ==
    { <<>>,
      <<M_lib, M_lib_foo, M_lib_bar>>,
      <<M_foo, M_bar>>,
      <<M_bare_lib_foo, M_lib_foo, M_foo>> }

NameClass == WordChars \cup {".", "-"}

\* lib[\w.\-]+$
PatLib == << LitSeq(Str_lib) \o <<Tok(NameClass, "plus"), EndAnchor>> >>

\* lib/[\w.\-]+$
PatLibDir ==
    << LitSeq(Str_lib \o <<"/">>) \o <<Tok(NameClass, "plus"), EndAnchor>> >>

\* [\w.\-]+$
PatTop == << <<Tok(NameClass, "plus"), EndAnchor>> >>

\* .*foo\.so$
PatFoo == << <<Tok(Chars, "star")>> \o LitSeq(Str_foo_so) \o <<EndAnchor>> >>

\* foo\.so$|lib/foo\.so$
PatAlt ==
    << LitSeq(Str_foo_so) \o <<EndAnchor>>,
       LitSeq(Str_lib \o <<"/">> \o Str_foo_so) \o <<EndAnchor>> >>

\* text that is no regular expression, such as "("
PatBad == << <<BadToken>> >>

Rule(pattern, finalPath, renameTo, symLinkPath) ==
    [pattern |-> pattern, finalPath |-> finalPath, renameTo |-> renameTo,
     symLinkPath |-> symLinkPath]

Rules ==
    { Rule(PatLib, Str_out_lib, <<>>, <<>>),
      Rule(PatLibDir, Str_out_lib, <<>>, Str_link),
      Rule(PatTop, Str_out, <<>>, Str_link),
      Rule(PatTop, Str_out, Str_x_so, Str_out_l),
      Rule(PatFoo, Str_opt, <<>>, Str_link),
      Rule(PatAlt, Str_out, <<>>, <<>>) }

MaxRules == 2

RECURSIVE SeqsUpTo(_, _)
SeqsUpTo(S, n) ==
    IF n = 0 THEN {<<>>}
    ELSE LET shorter == SeqsUpTo(S, n - 1)
         IN shorter \cup {Append(q, x) : q \in {r \in shorter : Len(r) = n - 1}, x \in S}

\* the users pwd.getpwnam knows
Users == {"root", "alice", "bob"}

\* Settings.defaultSettings
defaultSettings ==
    [collectorVersion |-> <<>>, osVersion |-> <<>>, llvm |-> FALSE,
     changeOwnerToCurrentUser |-> FALSE, changeOwnerTo |-> "",
     files |-> <<>>]

ConfigFile(state, data) == [state |-> state, data |-> data]

Data(version, llvm, toCurrent, ownerTo, files) ==
    [collectorVersion |-> version, osVersion |-> Linux, llvm |-> llvm,
     changeOwnerToCurrentUser |-> toCurrent, changeOwnerTo |-> ownerTo,
     files |-> files]

\* configuration files that cannot be loaded
BrokenConfigs ==
    { ConfigFile("absent", defaultSettings),
      ConfigFile("badjson", defaultSettings),
      ConfigFile("nokey", defaultSettings),
      ConfigFile("ok", Data(V20, FALSE, FALSE, "ghost",
                            <<Rule(PatTop, Str_out, <<>>, Str_link)>>)),
      ConfigFile("ok", Data(V20, FALSE, FALSE, "",
                            <<Rule(PatTop, Str_out, <<>>, Str_link),
                              Rule(PatBad, Str_out, <<>>, <<>>)>>)) }

\* configurations that vary what is looked for on the share
LocateConfigs ==
    { ConfigFile("ok", Data(v, l, FALSE, "", f)) :
        v \in {V20, V30}, l \in BOOLEAN,
        f \in { <<Rule(PatTop, Str_out, <<>>, Str_link)>>,
                <<Rule(PatLibDir, Str_out_lib, <<>>, Str_link),
                  Rule(PatFoo, Str_opt, <<>>, Str_link)>> } }

\* configurations that vary the rules and the ownership policy
EngineConfigs ==
    { ConfigFile("ok", Data(V20, FALSE, o[1], o[2], f)) :
        o \in {<<FALSE, "">>, <<TRUE, "">>, <<FALSE, "bob">>, <<TRUE, "bob">>},
        f \in SeqsUpTo(Rules, MaxRules) }

\* local filesystems a run may start from
FsOf(extra) == (<<>> :> DirEntry) @@ (cwd :> DirEntry) @@ extra

InitialFs ==
    { FsOf(<<>> :> DirEntry),
      \* a link left at "link" whose target is gone
      FsOf((cwd \o <<Str_link>>) :>
              [kind |-> "link", data |-> Str_gone, owner |-> "root"]),
      \* a regular file at "link"
      FsOf((cwd \o <<Str_link>>) :>
              [kind |-> "file", data |-> Str_gone, owner |-> "root"]) }

-----------------------------------------------------------------------------
(* FilesExtractor.extract: one pass through the body of the inner loop *)

NoPass ==
    [i |-> 0, j |-> 0, matched |-> FALSE, ops |-> <<>>, target |-> <<>>,
     filePath |-> <<>>, newPath |-> <<>>, exc |-> "none"]

\* the test without its isdir part
ruleMatchesAnyKind(fileEntry, member) ==
    ReMatch(fileEntry.regex, member.name)

\* not member.isdir() and fileEntry.regex.match(member.name)
ruleMatches(fileEntry, member) ==
    ~member.isdir /\ ReMatch(fileEntry.regex, member.name)

\* Path(fileEntry.finalPath, Path(member.name).name)
expectedPath(fileEntry, member) ==
    LET fileName == BaseName(ParsePath(member.name))
    IN JoinPaths(ParsePath(fileEntry.finalPath),
                 [abs |-> FALSE,
                  parts |-> IF fileName = <<>> THEN <<>> ELSE <<fileName>>])

\* the loop body without the test of line 194 around its steps
loopBodyUnguarded(fs, s, fileEntry, member) ==
    LET st0 == [fs |-> fs, exc |-> "none", ops |-> <<>>]
        st1 == tarExtract(st0, member, fileEntry.finalPath)
        filePath == expectedPath(fileEntry, member)
        st2 == changeFileOwner(st1, s, filePath)
        newPath == renamedPath(st2.fs, filePath, fileEntry)
        st3 == renameFile(st2, filePath, fileEntry)
        st4 == genSymlink(st3, s, newPath, fileEntry)
    IN [fs |-> st4.fs, exc |-> st4.exc, ops |-> st4.ops,
        matched |-> ruleMatches(fileEntry, member),
        target |-> Loc(JoinPaths(ParsePath(fileEntry.finalPath),
                                 ParsePath(member.name)), cwd),
        filePath |-> Loc(filePath, cwd), newPath |-> Loc(newPath, cwd)]

loopBody(fs, s, fileEntry, member) ==
    LET st0 == [fs |-> fs, exc |-> "none", ops |-> <<>>]
        st1 == tarExtract(st0, member, fileEntry.finalPath)
        filePath == expectedPath(fileEntry, member)
        st2 == changeFileOwner(st1, s, filePath)
        newPath == renamedPath(st2.fs, filePath, fileEntry)
        st3 == renameFile(st2, filePath, fileEntry)
        st4 == genSymlink(st3, s, newPath, fileEntry)
    IN IF ruleMatches(fileEntry, member)
       THEN [fs |-> st4.fs, exc |-> st4.exc, ops |-> st4.ops, matched |-> TRUE,
             target |-> Loc(JoinPaths(ParsePath(fileEntry.finalPath),
                                      ParsePath(member.name)), cwd),
             filePath |-> Loc(filePath, cwd), newPath |-> Loc(newPath, cwd)]
       ELSE [fs |-> fs, exc |-> "none", ops |-> <<>>, matched |-> FALSE,
             target |-> <<>>, filePath |-> <<>>, newPath |-> <<>>]

-----------------------------------------------------------------------------
(* RemoteFolder *)

Call(ev, status) == [ev |-> ev, status |-> status]

\* what subprocess.call(["mount", ...]) can do: exit 0 with the share attached,
\* exit non-zero with nothing attached, or fail to start the program
MountOutcomes ==
    { [status |-> 0, raised |-> FALSE],
      [status |-> 32, raised |-> FALSE],
      [status |-> 0, raised |-> TRUE] }

\* what subprocess.call(["umount", "-f", ...]) can do: exit 0 with the share
\* detached; exit non-zero with the share still attached, or with it no longer
\* attached (exit 32 "not mounted"); or fail to start the program
UmountOutcomes ==
    { [status |-> 0, raised |-> FALSE, attached |-> FALSE],
      [status |-> 32, raised |-> FALSE, attached |-> TRUE],
      [status |-> 32, raised |-> FALSE, attached |-> FALSE],
      [status |-> 0, raised |-> TRUE, attached |-> TRUE] }

\* os.rmdir(localFolder) fails with EBUSY while a filesystem is attached there
rmdirFails(attached) == attached

\* a variant of __enter__ that leaves the directory behind when mount fails
RemoteFolderEnterNoRmdir(out) ==
    IF out.raised
    THEN [value |-> "raise", exc |-> "FileNotFoundError", dirExists |-> TRUE,
          mounted |-> FALSE, errCode |-> 0,
          calls |-> <<Call("mkdir", 0), Call("mount", -1)>>]
    ELSE IF out.status = 0
    THEN [value |-> "localFolder", exc |-> "none", dirExists |-> TRUE,
          mounted |-> TRUE, errCode |-> out.status,
          calls |-> <<Call("mkdir", 0), Call("mount", out.status)>>]
    ELSE [value |-> "raise", exc |-> "NameError", dirExists |-> TRUE,
          mounted |-> FALSE, errCode |-> out.status,
          calls |-> <<Call("mkdir", 0), Call("mount", out.status)>>]

\* RemoteFolder.__enter__
RemoteFolderEnter(out) ==
    IF out.raised
    THEN [value |-> "raise", exc |-> "FileNotFoundError", dirExists |-> TRUE,
          mounted |-> FALSE, errCode |-> 0,
          calls |-> <<Call("mkdir", 0), Call("mount", -1)>>]
    ELSE IF out.status = 0
    THEN [value |-> "localFolder", exc |-> "none", dirExists |-> TRUE,
          mounted |-> TRUE, errCode |-> out.status,
          calls |-> <<Call("mkdir", 0), Call("mount", out.status)>>]
    ELSE \* os.rmdir, then the name "ettings" is not defined
         [value |-> "raise", exc |-> "NameError", dirExists |-> FALSE,
          mounted |-> FALSE, errCode |-> out.status,
          calls |-> <<Call("mkdir", 0), Call("mount", out.status),
                      Call("rmdir", 0)>>]

\* a variant of __exit__ that does nothing while an exception is in flight, as
\* a release written after the block instead of as its exit hook would
RemoteFolderExitNotOnRaise(exists, code, out, pending) ==
    LET busy == rmdirFails(out.attached)
        rmdir == Call("rmdir", IF busy THEN 16 ELSE 0)
    IN IF ~exists \/ pending # "none"
       THEN [exc |-> pending, dirExists |-> exists, mounted |-> exists,
             errCode |-> code, calls |-> <<>>]
       ELSE IF out.raised
       THEN [exc |-> IF busy THEN "OSError" ELSE "FileNotFoundError",
             dirExists |-> busy, mounted |-> out.attached, errCode |-> code,
             calls |-> <<Call("umount", -1), rmdir>>]
       ELSE [exc |-> IF busy THEN "OSError" ELSE pending,
             dirExists |-> busy, mounted |-> out.attached,
             errCode |-> out.status,
             calls |-> <<Call("umount", out.status), rmdir>>]

\* RemoteFolder.__exit__, entered with exception `pending` (or "none") in flight
RemoteFolderExit(exists, code, out, pending) ==
    LET busy == rmdirFails(out.attached)
        rmdir == Call("rmdir", IF busy THEN 16 ELSE 0)
    IN IF ~exists
       THEN [exc |-> pending, dirExists |-> FALSE, mounted |-> FALSE,
             errCode |-> code, calls |-> <<>>]
       ELSE IF out.raised
       THEN \* except: os.rmdir, raise exception
            [exc |-> IF busy THEN "OSError" ELSE "FileNotFoundError",
             dirExists |-> busy, mounted |-> out.attached, errCode |-> code,
             calls |-> <<Call("umount", -1), rmdir>>]
       ELSE \* else: os.rmdir
            [exc |-> IF busy THEN "OSError" ELSE pending,
             dirExists |-> busy, mounted |-> out.attached,
             errCode |-> out.status,
             calls |-> <<Call("umount", out.status), rmdir>>]

-----------------------------------------------------------------------------
(* main() *)

NoSettings == defaultSettings

\* the archive before tarfile.open has read it
Unread == [read |-> FALSE, members |-> <<>>]

InitOn(configs) ==
    /\ pc = "start"
    /\ config \in configs
    /\ settings = NoSettings
    /\ dirExists = FALSE
    /\ mounted = FALSE
    /\ errCode = 0
    /\ trace = <<>>
    /\ exc = "none"
    /\ ret = "none"
    /\ remote = NoTree
    /\ archivePath = NotFound("")
    /\ archiveOpened = FALSE
    /\ members = <<>>
    /\ disk \in InitialFs
    /\ i = 0
    /\ j = 0
    /\ filesProcessed = 0
    /\ last = NoPass
    /\ summary = -1
    /\ rerun = FALSE
    /\ before = disk
    /\ tarball = Unread

\* the checks with only the first rule's pattern compiled
settingsErrorFirstRuleOnly(c) ==
    \/ c.state \in {"absent", "nokey"}
    \/ c.state = "ok" /\ c.data.changeOwnerTo # ""
                      /\ c.data.changeOwnerTo \notin Users
    \/ c.state = "ok" /\ c.data.files # <<>>
                      /\ ReError(c.data.files[1].pattern)

\* Settings.__init__ raises SettingsInitError
settingsError(c) ==
    \/ c.state \in {"absent", "nokey"}
    \/ c.state = "ok" /\ c.data.changeOwnerTo # ""
                      /\ c.data.changeOwnerTo \notin Users
    \/ c.state = "ok" /\ \E k \in 1..Len(c.data.files) :
                            ReError(c.data.files[k].pattern)

\* Settings.compileRegexes
compileRegexes(data) ==
    [data EXCEPT !.files =
        [k \in 1..Len(@) |->
            [pattern |-> @[k].pattern, finalPath |-> @[k].finalPath,
             renameTo |-> @[k].renameTo, symLinkPath |-> @[k].symLinkPath,
             regex |-> CompileEntry(@[k].pattern)]]]

\* settings = Settings(...), with main's handler of SettingsInitError
SettingsInit ==
    /\ pc = "start"
    /\ config' = IF config.state = "absent"
                 THEN ConfigFile("default", defaultSettings) ELSE config
    /\ IF config.state = "badjson"
       THEN /\ exc' = "JSONDecodeError"
            /\ pc' = "done"
            /\ UNCHANGED <<settings, ret>>
       ELSE IF settingsError(config)
       THEN /\ ret' = "err"
            /\ pc' = "done"
            /\ UNCHANGED <<settings, exc>>
       ELSE /\ settings' = compileRegexes(config.data)
            /\ pc' = "enter"
            /\ UNCHANGED <<exc, ret>>
    /\ UNCHANGED <<dirExists, mounted, errCode, trace, remote, archivePath,
                   archiveOpened, members, disk, i, j, filesProcessed, last,
                   summary>>
    /\ UNCHANGED <<rerun, before, tarball>>

\* with RemoteFolder(...) as localFolder
Enter(trees) ==
    /\ pc = "enter"
    /\ \E out \in MountOutcomes :
         LET r == RemoteFolderEnter(out)
         IN /\ dirExists' = r.dirExists
            /\ mounted' = r.mounted
            /\ errCode' = r.errCode
            /\ trace' = trace \o r.calls
            /\ exc' = r.exc
            /\ pc' = IF r.value = "raise" THEN "done"
                     ELSE IF r.value = "localFolder" THEN "locate" ELSE "exit"
            /\ remote' \in IF r.mounted THEN trees ELSE {NoTree}
    /\ UNCHANGED <<config, settings, ret, archivePath, archiveOpened, members,
                   disk, i, j, filesProcessed, last, summary>>
    /\ UNCHANGED <<rerun, before, tarball>>

\* archivePath = getArchivePath(settings, localFolder)
Locate ==
    /\ pc = "locate"
    /\ LET r == getArchivePath(settings, remote)
       IN /\ archivePath' = r
          /\ exc' = r.exc
          /\ pc' = IF r.kind = "path" THEN "open" ELSE "exit"
    /\ trace' = Append(trace, Call("use", 0))
    /\ UNCHANGED <<config, settings, dirExists, mounted, errCode, ret, remote,
                   archiveOpened, members, disk, i, j, filesProcessed, last,
                   summary>>
    /\ UNCHANGED <<rerun, before, tarball>>

\* tarfile.open(archivePath, 'r'), FilesExtractor(...), archive.getmembers()
Open ==
    /\ pc = "open"
    /\ archiveOpened' = TRUE
    /\ \/ /\ members' \in IF tarball.read THEN {tarball.members} ELSE Listings
          /\ tarball' = [read |-> TRUE, members |-> members']
          /\ i' = 1
          /\ j' = 1
          /\ pc' = "extract"
          /\ exc' = exc
       \/ \* the file is no tar archive
          /\ ~tarball.read
          /\ exc' = "ReadError"
          /\ pc' = "exit"
          /\ UNCHANGED <<members, i, j, tarball>>
    /\ trace' = Append(trace, Call("use", 0))
    /\ UNCHANGED <<config, settings, dirExists, mounted, errCode, ret, remote,
                   archivePath, disk, filesProcessed, last, summary, rerun,
                   before>>

\* one pass of: for fileEntry in files: for member in archiveMembers: ...
ExtractStep ==
    /\ pc = "extract"
    /\ i <= Len(settings.files)
    /\ j <= Len(members)
    /\ LET r == loopBody(disk, settings, settings.files[i], members[j])
       IN /\ disk' = r.fs
          /\ last' = [i |-> i, j |-> j, matched |-> r.matched, ops |-> r.ops,
                      target |-> r.target, filePath |-> r.filePath,
                      newPath |-> r.newPath, exc |-> r.exc]
          /\ exc' = r.exc
          /\ IF r.exc # "none"
             THEN /\ pc' = "exit"
                  /\ UNCHANGED <<i, j, filesProcessed>>
             ELSE /\ pc' = pc
                  /\ filesProcessed' = filesProcessed + (IF r.matched THEN 1 ELSE 0)
                  /\ i' = IF j < Len(members) THEN i ELSE i + 1
                  /\ j' = IF j < Len(members) THEN j + 1 ELSE 1
    /\ UNCHANGED <<config, settings, dirExists, mounted, errCode, trace, ret,
                   remote, archivePath, archiveOpened, members, summary>>
    /\ UNCHANGED <<rerun, before, tarball>>

\* the loops are over: print "Files extracted: ..."
ExtractEnd ==
    /\ pc = "extract"
    /\ i > Len(settings.files) \/ j > Len(members)
    /\ summary' = filesProcessed
    /\ pc' = "exit"
    /\ UNCHANGED <<config, settings, dirExists, mounted, errCode, trace, exc,
                   ret, remote, archivePath, archiveOpened, members, disk, i, j,
                   filesProcessed, last>>
    /\ UNCHANGED <<rerun, before, tarball>>

\* leaving the with block: RemoteFolder.__exit__
Exit ==
    /\ pc = "exit"
    /\ \E out \in UmountOutcomes :
         LET r == RemoteFolderExit(dirExists, errCode, out, exc)
         IN /\ dirExists' = r.dirExists
            /\ mounted' = r.mounted
            /\ errCode' = r.errCode
            /\ trace' = trace \o r.calls
            /\ exc' = r.exc
            /\ pc' = IF r.exc = "none" THEN "stop" ELSE "done"
    /\ UNCHANGED <<config, settings, ret, remote, archivePath, archiveOpened,
                   members, disk, i, j, filesProcessed, last, summary>>
    /\ UNCHANGED <<rerun, before, tarball>>

\* settings.printer.stop(), and main returns
Stop ==
    /\ pc = "stop"
    /\ pc' = "done"
    /\ ret' = "None"
    /\ UNCHANGED <<config, settings, dirExists, mounted, errCode, trace, exc,
                   remote, archivePath, archiveOpened, members, disk, i, j,
                   filesProcessed, last, summary>>
    /\ UNCHANGED <<rerun, before, tarball>>

\* the program is started again after a run that printed its summary and
\* ended without an exception: a new process, the configuration file, the local
\* filesystem and the archive on the share as the first run left them
Rerun ==
    /\ pc = "done"
    /\ ~rerun
    /\ exc = "none"
    /\ summary >= 0
    /\ rerun' = TRUE
    /\ before' = disk
    /\ pc' = "start"
    /\ settings' = NoSettings
    /\ errCode' = 0
    /\ trace' = <<>>
    /\ ret' = "none"
    /\ remote' = NoTree
    /\ archivePath' = NotFound("")
    /\ archiveOpened' = FALSE
    /\ members' = <<>>
    /\ i' = 0
    /\ j' = 0
    /\ filesProcessed' = 0
    /\ last' = NoPass
    /\ summary' = -1
    /\ UNCHANGED <<config, dirExists, mounted, exc, disk, tarball>>

NextOn(trees) ==
    \/ SettingsInit
    \/ Enter(trees)
    \/ Locate
    \/ Open
    \/ ExtractStep
    \/ ExtractEnd
    \/ Exit
    \/ Stop
    \/ Rerun

Init == InitOn(BrokenConfigs \cup LocateConfigs)

Next == NextOn(Trees)

\* runs over every share, with a few rule lists
Spec == Init /\ [][Next]_vars

InitEngine == InitOn(BrokenConfigs \cup EngineConfigs)

NextEngine == NextOn({ExampleShare})

\* runs over every rule list up to MaxRules, on the example share
SpecEngine == InitEngine /\ [][NextEngine]_vars

-----------------------------------------------------------------------------
(* Properties of the mount lifecycle *)

Calls(ev) == {k \in 1..Len(trace) : trace[k].ev = ev}

\* the mount program returned status zero / a non-zero status
MountSucceeded == \E k \in Calls("mount") : trace[k].status = 0

MountFailed == \E k \in Calls("mount") : trace[k].status > 0

UmountFailed == \E k \in Calls("umount") : trace[k].status > 0

UmountSucceeded == \E k \in Calls("umount") : trace[k].status = 0

\* C1: whenever mount returns a non-zero status, __enter__ yields a null mount
\* point without raising, the caller neither locates, extracts nor unmounts, and
\* the run ends normally.
C1_MountFailureNonFatal ==
    (MountFailed /\ pc = "done") =>
        /\ exc = "none"
        /\ ret = "None"
        /\ Calls("use") = {}
        /\ Calls("umount") = {}
        /\ ~archiveOpened

\* C2: if the mount succeeded and umount then returns a non-zero status, then
\* after __exit__ the mount-point directory still exists and __exit__ surfaces
\* an error.
C2_UnmountFailureSurfaced ==
    (MountSucceeded /\ UmountFailed /\ pc \in {"stop", "done"}) =>
        /\ dirExists
        /\ exc # "none"

\* C3: the lifecycle calls occur in the order mkdir, mount, use, umount, rmdir,
\* and after a successful mount rmdir is attempted only right after an umount
\* that returned status zero.
C3_LifecycleOrder ==
    /\ \A k \in Calls("mkdir") : k = 1
    /\ \A k \in Calls("mount") : k = 2
    /\ \A k \in Calls("use") : \A m \in Calls("umount") \cup Calls("rmdir") : k < m
    /\ \A k \in Calls("umount") : \A m \in Calls("rmdir") : k < m
    /\ MountSucceeded =>
          \A k \in Calls("rmdir") :
              trace[k - 1].ev = "umount" /\ trace[k - 1].status = 0

\* C4: once the mount has succeeded, __exit__ runs on every way out of the with
\* block (normal end, not-found, an exception out of locate or extraction):
\* exactly one umount attempt is made, and if it returns zero the mount-point
\* directory no longer exists when the run ends.
C4_ReleaseOnEveryExit ==
    (MountSucceeded /\ pc \in {"stop", "done"}) =>
        /\ Cardinality(Calls("umount")) = 1
        /\ UmountSucceeded => ~dirExists

\* an exception out of locate, released with a successful umount
C4_Witness ==
    /\ pc = "done"
    /\ MountSucceeded
    /\ exc = "ValueError"
    /\ UmountSucceeded
    /\ ~dirExists

\* C5: if mount returns a non-zero status, the directory __enter__ created no
\* longer exists once __enter__ has finished, however it finishes.
C5_NoLeakedDirectory == MountFailed => ~dirExists

C5_Witness == MountFailed /\ pc = "done" /\ Calls("mkdir") # {} /\ ~dirExists

-----------------------------------------------------------------------------
(* Properties of getArchivePath *)

\* the name contains the text "llvm"
HasLlvm(name) ==
    \E k \in 1..(Len(name) - 3) : SubSeq(name, k, k + 3) = <<"l", "l", "v", "m">>

\* getArchivePath has run
Located == pc \in {"open", "extract", "exit", "stop", "done"} /\ MountSucceeded

VersionPath == <<settings.collectorVersion>>

OsPath == <<settings.collectorVersion, settings.osVersion>>

\* the child of the os directory that no other child exceeds in name
GreatestBuild ==
    CHOOSE b \in Range(remote[OsPath]) :
        \A c \in Range(remote[OsPath]) : ~StrLess(b, c)

BuildPath == OsPath \o <<GreatestBuild>>

\* the four resolution failures
VersionAbsent == ~Exists(remote, VersionPath)

OsAbsent == Exists(remote, VersionPath) /\ ~Exists(remote, OsPath)

OsEmpty == IsDir(remote, OsPath) /\ remote[OsPath] = <<>>

NoVariant ==
    /\ IsDir(remote, OsPath)
    /\ remote[OsPath] # <<>>
    /\ IsDir(remote, BuildPath)
    /\ \A f \in Range(remote[BuildPath]) : HasLlvm(f) # settings.llvm

\* C6: for each of the four resolution failures getArchivePath returns
\* not-found without raising, no archive is opened, nothing is extracted, and
\* the mount is then released; an empty os directory is reported as not found.
C6_ResolutionFailuresClean ==
    (Located /\ (VersionAbsent \/ OsAbsent \/ OsEmpty \/ NoVariant)) =>
        /\ archivePath.kind = "None"
        /\ exc \notin {"ValueError", "NotADirectoryError"}
        /\ ~archiveOpened
        /\ last = NoPass
        /\ pc = "done" => Calls("umount") # {}

-----------------------------------------------------------------------------
(* Properties of FilesExtractor *)

\* a pass through the loop body has run
Passed == last.i > 0

LastRule == settings.files[last.i]

LastMember == members[last.j]

\* the member's path relative to the archive root: a leading "./" stripped
StripDotSlash(name) ==
    IF Len(name) >= 2 /\ name[1] = "." /\ name[2] = "/"
    THEN SubSeq(name, 3, Len(name)) ELSE name

\* C8: for every matched non-directory member, at any depth, the extraction
\* step leaves the file at finalPath/<base name of the member>, where the
\* ownership, rename and symlink steps look for it.
C8_ExtractedAtBaseName ==
    (Passed /\ last.matched /\ last.ops # <<>>) =>
        /\ last.ops[1].op = "extract"
        /\ last.ops[1].at = last.filePath

\* C9: a rule matches a member exactly when its pattern matches from the start
\* of the member's path relative to the archive root, a leading "./" stripped,
\* whether the index stores "./a/b" or "a/b".
C9_MatchRelativeToRoot ==
    (Passed /\ ~LastMember.isdir) =>
        (last.matched <=> ReMatch(LastRule.pattern, StripDotSlash(LastMember.name)))

\* C10: whenever a rule with a symLinkPath processes a member whose extracted
\* (possibly renamed) file exists, the symlink step does not fail on what was
\* at symLinkPath (a dangling link included), and afterwards symLinkPath is a
\* symbolic link to that file.
C10_SymlinkReplaced ==
    (/\ Passed
     /\ last.matched
     /\ LastRule.symLinkPath # <<>>
     /\ FsExists(disk, last.newPath)) =>
        LET l == Loc(ParsePath(LastRule.symLinkPath), cwd)
        IN /\ last.exc # "FileExistsError"
           /\ l \in DOMAIN disk
           /\ disk[l].kind = "link"
           /\ Follow(disk, l).loc = last.newPath


\* the second run has got past the extraction loops, or out of them
SecondRunOver == rerun /\ archiveOpened /\ pc \in {"exit", "stop", "done"}

\* C11: when the program is run again after a completed run, against the same
\* archive and on the filesystem the first run left, the second run completes
\* as well and leaves the files, renamed files and symbolic links as they were
\* after the first run.
C11_RerunIdempotent ==
    SecondRunOver =>
        /\ last.exc = "none"
        /\ summary >= 0
        /\ disk = before

\* rule a's compiled pattern matches member b, which is no directory
PairMatches(a, b) ==
    ~members[b].isdir /\ ReMatch(settings.files[a].regex, members[b].name)

\* the matching pairs that come before position (a, b) in rule-major order
MatchedBefore(a, b) ==
    {p \in (1..Len(settings.files)) \X (1..Len(members)) :
        /\ p[1] < a \/ (p[1] = a /\ p[2] < b)
        /\ PairMatches(p[1], p[2])}

MatchedPairs ==
    {p \in (1..Len(settings.files)) \X (1..Len(members)) :
        PairMatches(p[1], p[2])}

\* C12: filesProcessed counts the (rule, non-directory member) pairs whose
\* rule matches the member, in rule-major order: at every point of the loops
\* it is the number of matching pairs before the current position, the summary
\* is the number of all matching pairs, and every matched pass extracts its
\* member below its own rule's destination.
C12_CountIsMatchedPairs ==
    /\ pc = "extract" => filesProcessed = Cardinality(MatchedBefore(i, j))
    /\ summary >= 0 => summary = Cardinality(MatchedPairs)
    /\ (Passed /\ last.matched /\ last.ops # <<>>) =>
          /\ PairMatches(last.i, last.j)
          /\ last.ops[1].op = "extract"
          /\ last.ops[1].arg = LastMember.name
          /\ IsPrefix(Loc(ParsePath(LastRule.finalPath), cwd), last.ops[1].at)
    /\ (Passed /\ ~last.matched) => ~PairMatches(last.i, last.j)

\* a completed run in which one member was matched by two rules with different
\* destinations and lies in both
C12_Witness ==
    /\ summary >= 2
    /\ \E b \in 1..Len(members) : \E a1, a2 \in 1..Len(settings.files) :
          /\ a1 < a2
          /\ PairMatches(a1, b)
          /\ PairMatches(a2, b)
          /\ settings.files[a1].finalPath # settings.files[a2].finalPath
          /\ FsExists(disk, Loc(expectedPath(settings.files[a1], members[b]), cwd))
          /\ FsExists(disk, Loc(expectedPath(settings.files[a2], members[b]), cwd))

\* C13: a pass whose member matched but whose file is absent at the expected
\* path finalPath/<base name> once the pass is over leaves filesProcessed as
\* it was.
C13_CountsOnlyExtracted ==
    [][(/\ pc = "extract"
        /\ pc' = "extract"
        /\ <<i', j'>> # <<i, j>>
        /\ last'.matched
        /\ ~FsExists(disk', last'.filePath))
       => filesProcessed' = filesProcessed]_vars

\* the pass about to run is for a directory member, or for a member that the
\* current rule does not match
NoMatchAhead ==
    /\ pc = "extract"
    /\ i <= Len(settings.files)
    /\ j <= Len(members)
    /\ members[j].isdir \/ ~ReMatch(settings.files[i].regex, members[j].name)

\* C14: a pass for a directory member, or for a member the rule does not
\* match, changes nothing in the filesystem, does not count, raises nothing,
\* and the loops go on; so a member that no rule matches leaves no trace.
C14_UnmatchedUntouched ==
    [][NoMatchAhead =>
          /\ disk' = disk
          /\ filesProcessed' = filesProcessed
          /\ exc' = "none"
          /\ pc' = "extract"
          /\ last'.ops = <<>>]_vars

\* a completed run over a listing with a directory whose name fits a rule's
\* pattern and a file that no rule matches: neither was written
C14_Witness ==
    /\ summary >= 0
    /\ settings.files # <<>>
    /\ \E b \in 1..Len(members) :
          /\ members[b].isdir
          /\ \E a \in 1..Len(settings.files) :
                ReMatch(settings.files[a].regex, members[b].name)
    /\ \E b \in 1..Len(members) :
          /\ ~members[b].isdir
          /\ \A a \in 1..Len(settings.files) : ~PairMatches(a, b)
          /\ \A l \in DOMAIN disk : disk[l].data # members[b].name

\* the members of the archive that are no directories, in archive order
FileMembers == SelectSeq(members, LAMBDA m : ~m.isdir)

\* C15: with the single rule of pattern lib[\w.\-]+$ and destination out/lib/,
\* on an archive whose files are ./lib/foo.so and ./lib/bar.txt, the completed
\* run has written out/lib/foo.so and out/lib/bar.txt and reports the count 2.
C15_LibExample ==
    (/\ summary >= 0
     /\ config.data.files = <<Rule(PatLib, Str_out_lib, <<>>, <<>>)>>
     /\ FileMembers = <<M_lib_foo, M_lib_bar>>) =>
        /\ summary = 2
        /\ \A m \in {M_lib_foo, M_lib_bar} :
              LET l == cwd \o <<Str_out, Str_lib, BaseName(ParsePath(m.name))>>
              IN l \in DOMAIN disk /\ disk[l].kind = "file" /\ disk[l].data = m.name

\* C15, as the code has it: with the single rule of pattern lib[\w.\-]+$ and
\* destination out/lib/, on an archive whose files are ./lib/foo.so and
\* ./lib/bar.txt, no member matches (the "/" that follows "lib" is not in the
\* pattern's class): the completed run has written nothing and reports the
\* count 0.
C15_LibExampleNoMatch ==
    (/\ summary >= 0
     /\ config.data.files = <<Rule(PatLib, Str_out_lib, <<>>, <<>>)>>
     /\ FileMembers = <<M_lib_foo, M_lib_bar>>) =>
        /\ summary = 0
        /\ disk = before
        /\ \A b \in 1..Len(members) : ~PairMatches(1, b)

\* the run of the example has printed its summary
C15_Witness ==
    /\ summary = 0
    /\ pc = "done"
    /\ ~rerun
    /\ config.data.files = <<Rule(PatLib, Str_out_lib, <<>>, <<>>)>>
    /\ FileMembers = <<M_lib_foo, M_lib_bar>>
    /\ cwd \o <<Str_out>> \notin DOMAIN disk

\* the ownership changes of the latest pass
ChownOps == {k \in 1..Len(last.ops) : last.ops[k].op = "chown"}

\* the user the settings ask for
OwnerWanted ==
    IF settings.changeOwnerToCurrentUser THEN loginUser ELSE settings.changeOwnerTo

\* C18: every ownership change of a pass is to the login user if
\* changeOwnerToCurrentUser is set (whatever changeOwnerTo says) and to
\* changeOwnerTo otherwise; there is none if the flag is false and the name
\* empty; and if either is set, the file the pass leaves at its (renamed) path
\* belongs to that user.
C18_OwnerPrecedence ==
    (Passed /\ last.matched) =>
        /\ \A k \in ChownOps : last.ops[k].arg = OwnerWanted
        /\ (~settings.changeOwnerToCurrentUser /\ settings.changeOwnerTo = "")
              => ChownOps = {}
        /\ (/\ settings.changeOwnerToCurrentUser \/ settings.changeOwnerTo # ""
            /\ last.exc = "none"
            /\ FsExists(disk, last.newPath)) =>
              /\ ChownOps # {}
              /\ disk[Follow(disk, last.newPath).loc].owner = OwnerWanted

\* both options are set, and a file was given to the login user
C18_Witness ==
    /\ Passed
    /\ last.matched
    /\ settings.changeOwnerToCurrentUser
    /\ settings.changeOwnerTo = "bob"
    /\ ChownOps # {}
    /\ FsExists(disk, last.newPath)
    /\ disk[Follow(disk, last.newPath).loc].owner = loginUser

\* the extraction step of the pass about to run, on the filesystem as it is
ExtractionAhead ==
    tarExtract([fs |-> disk, exc |-> "none", ops |-> <<>>], members[j],
               settings.files[i].finalPath)

\* the pass about to run is for a matched member, its extraction step raises
\* nothing, and the file finalPath/<base name> does not exist after that step
ExpectedFileMissingAhead ==
    /\ pc = "extract"
    /\ i <= Len(settings.files)
    /\ j <= Len(members)
    /\ PairMatches(i, j)
    /\ ExtractionAhead.exc = "none"
    /\ ~FsExists(ExtractionAhead.fs,
                 Loc(expectedPath(settings.files[i], members[j]), cwd))

\* C19: if finalPath/<base name> does not exist after the extraction step of a
\* matched member, the pass does nothing beyond that step (no ownership
\* change, no rename, no symlink), raises nothing, and the loops go on with
\* the next member.
C19_MissingFileSkipsSteps ==
    [][ExpectedFileMissingAhead =>
          /\ disk' = ExtractionAhead.fs
          /\ last'.ops = ExtractionAhead.ops
          /\ exc' = "none"
          /\ pc' = "extract"
          /\ <<i', j'>> = IF j < Len(members) THEN <<i, j + 1>> ELSE <<i + 1, 1>>]_vars

\* a pass of a rule with a symLinkPath, under a configured owner, that
\* extracted its member elsewhere than finalPath/<base name> and did nothing
\* more, after which the run went on
C19_Witness ==
    /\ Passed
    /\ pc = "extract"
    /\ last.matched
    /\ last.exc = "none"
    /\ Len(last.ops) = 1
    /\ last.ops[1].op = "extract"
    /\ last.ops[1].at # last.filePath
    /\ ~FsExists(disk, last.filePath)
    /\ LastRule.symLinkPath # <<>>
    /\ settings.changeOwnerToCurrentUser
    /\ <<i, j>> # <<last.i, last.j>>

\* the latest pass is for a member that its rule matched, the rule renames,
\* and the rule had matched an earlier member of the listing already
RepeatedRenameMatch ==
    /\ Passed
    /\ last.matched
    /\ LastRule.renameTo # <<>>
    /\ \E b \in 1..(last.j - 1) : PairMatches(last.i, b)

\* finalPath/renameTo of the latest pass's rule
RenameTarget ==
    Loc(JoinPaths(ParsePath(LastRule.finalPath), ParsePath(LastRule.renameTo)), cwd)

\* C20: when a renaming rule matches a further member, that member too is
\* renamed to finalPath/renameTo, where it replaces the one renamed before, so
\* that the file under that name is the latest matched member, and the pass
\* is counted like any other: after k matches the count has grown by k and
\* the last matched member is the one that survives.
C20_RenameKeepsLast ==
    RepeatedRenameMatch =>
        /\ last.exc = "none"
        /\ \E k \in 1..Len(last.ops) :
              last.ops[k].op = "rename" /\ last.ops[k].arg = RenameTarget
        /\ RenameTarget \in DOMAIN disk
        /\ disk[RenameTarget].kind = "file"
        /\ disk[RenameTarget].data = LastMember.name
        /\ \A l \in DOMAIN disk :
              (disk[l].kind = "file" /\ l # RenameTarget /\ Front(l) = Front(RenameTarget))
                 => ~\E b \in 1..last.j :
                       PairMatches(last.i, b) /\ disk[l].data = members[b].name
        /\ filesProcessed = Cardinality(MatchedBefore(last.i, last.j)) + 1

-----------------------------------------------------------------------------
(* Properties of main() *)

\* the configuration file is missing (and was then written with the default
\* settings), is no JSON, lacks a key, names an owner that is no user, or
\* holds a rule whose pattern is no regular expression
MissingConfig == config.state \in {"absent", "default"}

MalformedConfig == config.state \in {"badjson", "nokey"}

UnknownOwner ==
    config.state = "ok" /\ config.data.changeOwnerTo \notin Users \cup {""}

InvalidRegex ==
    config.state = "ok" /\ \E k \in 1..Len(config.data.files) :
        \E a \in 1..Len(config.data.files[k].pattern) :
            \E t \in Range(config.data.files[k].pattern[a]) : t.rep = "error"

FatalConfig == MissingConfig \/ MalformedConfig \/ UnknownOwner \/ InvalidRegex

\* C16: under a fatal configuration error the run never creates the mount
\* point, never calls mount, opens no archive, runs no pass of the extraction
\* loops and leaves the local filesystem as it was: it goes from its start
\* straight to its end.
C16_ConfigErrorsBeforeMount ==
    FatalConfig =>
        /\ pc \in {"start", "done"}
        /\ trace = <<>>
        /\ ~dirExists
        /\ ~mounted
        /\ ~archiveOpened
        /\ last = NoPass
        /\ disk = before

\* a finished run whose second rule holds the invalid pattern
C16_Witness ==
    /\ pc = "done"
    /\ InvalidRegex
    /\ Len(config.data.files) = 2
    /\ ~ReError(config.data.files[1].pattern)
    /\ ret = "err"
    /\ trace = <<>>

\* getArchivePath has run and has not returned a path
LocateFailed == Located /\ archivePath.kind # "path"

\* what the run hands back is not a plain, successful end: main returned the
\* error it caught, or an exception left main
NonZeroResult == ret = "err" \/ exc # "none"

\* C17: a finished run has a non-zero result if the configuration was fatally
\* wrong or no archive was located; a finished run that located an archive and
\* met no exception has printed its summary count.
C17_FailuresReturnNonZero ==
    pc = "done" =>
        /\ FatalConfig => NonZeroResult
        /\ LocateFailed => NonZeroResult
        /\ (Located /\ archivePath.kind = "path" /\ exc = "none") =>
              summary >= 0 /\ ret = "None"

=============================================================================
